---- MODULE Spec2Model ----
(***************************************************************************)
(* FileLoader (src/src/js/net/loader/FileLoader.js): a resumable chunked   *)
(* download engine driven by XMLHttpRequest callbacks.                     *)
(*                                                                         *)
(* The loader owns one header-discovery session (_xhr) and a pointer to    *)
(* the most recently issued ranged session (_loader).  Every session ever  *)
(* issued keeps its listeners (the removeEventListener calls pass a fresh  *)
(* .bind() result and so remove nothing), therefore a session that is no   *)
(* longer referenced by _loader still delivers its callbacks.              *)
(*                                                                         *)
(* URLLoader (src/unnamed/part_001), the whole-resource loader with an     *)
(* optional timeout, is modelled beside it in the variable url.            *)
(***************************************************************************)
EXTENDS Integers, Sequences, FiniteSets, TLC

\* ------------------------------------------------------------------ bounds

\* Length of the resource served at the request's url.
ResourceLen == 5
\* Number of XMLHttpRequest objects created by slice() that may be alive at once.
MaxSess == 2
\* Number of load() calls in one behaviour.
MaxLoads == 2

\* ------------------------------------------------------- program constants

\* The chunk size: slice() asks for bytes loaded .. loaded + (ChunkSize - 1).
\* The source uses 204800 (Range end = bytesLoaded + 204799); scaled down.
ChunkSize == 2

IDLE == 0
OPENED == 1
HEADERS_RECEIVED == 2
DOWNLOADING == 3
COMPLETE == 4

NetworkErrorCode == 1000
\* URLLoader's onTimeout
TimeoutCode == 408
UnknownSizeCode == 1001

\* ------------------------------------------------------------- environment

\* The resource: byte i has value i, so any misplaced byte is visible.
Resource == [i \in 1..ResourceLen |-> i]

\* Statuses the server may give the header-discovery request.
HeaderStatuses == {200, 404}

\* A server that honours byte ranges answers a satisfiable range with 206 (or
\* fails with an error status) and an unsatisfiable one with 416.
ChunkStatuses(start) ==
    IF start < ResourceLen THEN {206, 404} ELSE {416}

Min(a, b) == IF a < b THEN a ELSE b

\* Body of the 206 answer to "Range: bytes=start-(start+ChunkSize-1)": clipped
\* by the server to the bytes that exist.
RangeBody(start) ==
    IF start < ResourceLen
    THEN SubSeq(Resource, start + 1, Min(start + ChunkSize, ResourceLen))
    ELSE << >>

\* --------------------------------------------------------------- the state

VARIABLES
    state,              \* this._state
    loaded,             \* this._loaded  (bytesLoaded)
    total,              \* this._total   (bytesTotal; 0 also stands for null)
    data,               \* this._data    (<< >> also stands for null)
    active_disconnect,  \* this._active_disconnect
    request,            \* this._request: "null" or "ok"
    xhr,                \* this._xhr: the header-discovery session
    loader,             \* this._loader: slot of the current ranged session, 0 = null
    sess,               \* every ranged XMLHttpRequest that can still deliver events
    lines,              \* online/offline listener pairs registered on window
    out,                \* notifications emitted by the last operation, in order
    act,                \* the last operation
    loads,              \* number of load() calls so far
    hist,               \* what an observer of the run has recorded so far
    url                 \* a URLLoader (src/unnamed/part_001), all its fields

vars == << state, loaded, total, data, active_disconnect, request, xhr, loader,
           sess, lines, out, act, loads, hist, url >>

\* A notification: code is the event name, arg its code / loaded / length field.
Ev(code, arg) == [code |-> code, arg |-> arg]

NullXhr == [phase |-> "null", status |-> 0, cl |-> 0]
FreshXhr == [phase |-> "unsent", status |-> 0, cl |-> 0]
FreeSession == [phase |-> "free", status |-> 0, start |-> 0, prog |-> 0]

\* A session whose request is under way (send() called, no terminal event yet).
InFlight(x) == x.phase \in {"sent", "recv"}

\* The loader's fields as one record, so that handlers compose.
Cur ==
    [state |-> state, loaded |-> loaded, total |-> total, data |-> data,
     active_disconnect |-> active_disconnect, request |-> request, xhr |-> xhr,
     loader |-> loader, sess |-> sess, lines |-> lines, out |-> << >>,
     req |-> << >>, ovf |-> FALSE]

Emit(m, e) == [m EXCEPT !.out = Append(@, e)]

\* ---------------------------------------------------------------- handlers

\* [rline]: removeEventListener is handed a new bound function, which was never
\* registered, so no listener is removed.
Rline(m) == m

\* [aline]: registers one more online/offline listener pair while downloading.
Aline(m) ==
    IF m.state # DOWNLOADING THEN m ELSE [m EXCEPT !.lines = @ + 1]

\* [onClose]: the 'abort' listener of _xhr and of every ranged session.
OnClose(m) ==
    IF m.active_disconnect
    THEN [m EXCEPT !.active_disconnect = FALSE]
    ELSE Emit(m, Ev("close", m.loaded))

\* XMLHttpRequest.abort() on _xhr: an in-flight request fires readystatechange
\* (status 0, ignored by onHTTPStatus) and abort; any request ends up UNSENT
\* with its response dropped.
AbortXhr(m) ==
    IF m.xhr.phase = "null" THEN m
    ELSE LET m1 == [m EXCEPT !.xhr = FreshXhr]
         IN IF InFlight(m.xhr) THEN OnClose(m1) ELSE m1

\* XMLHttpRequest.abort() on _loader.
AbortLoader(m) ==
    IF m.loader = 0 THEN m
    ELSE LET old == m.sess[m.loader]
             m1 == [m EXCEPT !.sess[m.loader] =
                        [old EXCEPT !.phase = "unsent", !.status = 0, !.prog = 0]]
         IN IF InFlight(old) THEN OnClose(m1) ELSE m1

\* [abort]
Abort(m) == AbortLoader(AbortXhr(Rline(m)))

\* Slots of sess holding no live XMLHttpRequest, once the finished session
\* _loader points to has been dropped.
Dropped(m) ==
    IF m.loader # 0 /\ ~InFlight(m.sess[m.loader])
    THEN [m.sess EXCEPT ![m.loader] = FreeSession]
    ELSE m.sess

\* [reset]: the XMLHttpRequest objects are let go.
Reset(m) ==
    [m EXCEPT !.state = IDLE, !.loaded = 0, !.total = 0, !.data = << >>,
              !.xhr = NullXhr, !.loader = 0,
              !.sess = Dropped(m)]

FreeSlots(s) == {i \in 1..MaxSess : s[i].phase = "free"}

LowestOf(S) == CHOOSE i \in S : \A j \in S : i <= j

\* slice() asking for the resource from its first byte again, whatever
\* bytesLoaded is.
Slice_Restart(m) ==
    LET s == Dropped(m)
        free == FreeSlots(s)
    IN  IF free = {} THEN [m EXCEPT !.state = DOWNLOADING, !.ovf = TRUE]
        ELSE LET i == LowestOf(free)
             IN [m EXCEPT !.state = DOWNLOADING,
                          !.sess = [s EXCEPT ![i] =
                              [phase |-> "sent", status |-> 0,
                               start |-> 0, prog |-> 0]],
                          !.req = Append(@, 0),
                          !.loader = i]

\* [slice]: a new XMLHttpRequest for bytes loaded .. loaded + ChunkSize - 1
\* replaces _loader; the session _loader pointed to is not aborted.
Slice(m) ==
    LET s == Dropped(m)
        free == FreeSlots(s)
    IN  IF free = {} THEN [m EXCEPT !.state = DOWNLOADING, !.ovf = TRUE]
        ELSE LET i == LowestOf(free)
             IN [m EXCEPT !.state = DOWNLOADING,
                          !.sess = [s EXCEPT ![i] =
                              [phase |-> "sent", status |-> 0,
                               start |-> m.loaded, prog |-> 0]],
                          !.req = Append(@, m.loaded),
                          !.loader = i]

\* _xhr.getResponseHeader('Content-Length'): null (0) unless _xhr holds a
\* response.
GetContentLength(x) == IF x.phase \in {"recv", "done"} THEN x.cl ELSE 0

\* onHTTPStatus without the test of _state >= 3.
OnHTTPStatus_NoGuard(m, st) ==
    IF st = 0 THEN m
    ELSE
    LET m1 == IF m.state < HEADERS_RECEIVED
              THEN [m EXCEPT !.state = HEADERS_RECEIVED] ELSE m
    IN  IF st >= 400 THEN Emit(Rline(m1), Ev("error", st))
        ELSE IF m1.xhr.phase = "null" THEN m1
        ELSE LET m2 == [m1 EXCEPT !.total = GetContentLength(m1.xhr)]
             IN IF m2.total = 0
                THEN Emit(m2, Ev("error", UnknownSizeCode))
                ELSE Aline(Slice(Abort([m2 EXCEPT !.active_disconnect = TRUE])))

\* [onHTTPStatus] for a readystatechange at readyState 2 of a session whose
\* status is st (evt.target is that session; the length is read from _xhr).
OnHTTPStatus(m, st) ==
    IF st = 0 THEN m
    ELSE
    LET m1 == IF m.state < HEADERS_RECEIVED
              THEN [m EXCEPT !.state = HEADERS_RECEIVED] ELSE m
    IN  IF st >= 400 THEN Emit(Rline(m1), Ev("error", st))
        ELSE IF m1.state >= DOWNLOADING THEN m1
        ELSE IF m1.xhr.phase = "null" THEN m1     \* TypeError: _xhr is null
        ELSE LET m2 == [m1 EXCEPT !.total = GetContentLength(m1.xhr)]
             IN IF m2.total = 0
                THEN Emit(m2, Ev("error", UnknownSizeCode))
                ELSE Aline(Slice(Abort([m2 EXCEPT !.active_disconnect = TRUE])))

\* [onError]: the 'error' listener; registered on _xhr only.
OnError(m) == Emit(m, Ev("error", NetworkErrorCode))

\* [onStart]
OnStart(m) == Emit([m EXCEPT !.state = OPENED], Ev("start", 0))

\* [onProgress] with evt.loaded = n; readyState and status are read from
\* _loader, whichever session delivered the event.
OnProgress(m, n) ==
    IF m.loader = 0 THEN m                        \* TypeError: _loader is null
    ELSE LET l == m.sess[m.loader]
         IN IF l.phase \in {"sent", "unsent"} THEN m      \* readyState < 2
            ELSE IF l.status >= 400 THEN m
            ELSE Emit(m, Ev("progress", m.loaded + n))

\* The Int8Array built by onComplete: ln zero bytes, the old data copied to
\* offset 0 and the response to offset bytesLoaded.
Assemble(old, resp, off) ==
    [i \in 1..(off + Len(resp)) |->
        IF i > off THEN resp[i - off]
        ELSE IF i <= Len(old) THEN old[i] ELSE 0]

\* onComplete that declares the transfer complete after any chunk.
OnComplete_OneChunk(m) ==
    IF m.loader = 0 THEN m
    ELSE LET l == m.sess[m.loader]
         IN IF l.status >= 400 THEN m
            ELSE IF l.phase # "done" THEN m
            ELSE LET temp == Assemble(m.data, RangeBody(l.start), m.loaded)
                     m1 == [m EXCEPT !.data = temp, !.loaded = Len(temp)]
                 IN Emit(Rline([m1 EXCEPT !.state = COMPLETE]),
                         Ev("complete", Len(m1.data)))

\* onComplete that stores a chunk and leaves the next request to the caller.
OnComplete_NoNext(m) ==
    IF m.loader = 0 THEN m
    ELSE LET l == m.sess[m.loader]
         IN IF l.status >= 400 THEN m
            ELSE IF l.phase # "done" THEN m
            ELSE LET temp == Assemble(m.data, RangeBody(l.start), m.loaded)
                     m1 == [m EXCEPT !.data = temp, !.loaded = Len(temp)]
                 IN IF m1.loaded < m1.total
                    THEN m1
                    ELSE Emit(Rline([m1 EXCEPT !.state = COMPLETE]),
                              Ev("complete", Len(m1.data)))

\* onComplete that asks again for a chunk the server refused.
OnComplete_Retry(m) ==
    IF m.loader = 0 THEN m
    ELSE LET l == m.sess[m.loader]
         IN IF l.status >= 400 THEN Slice(m)
            ELSE IF l.phase # "done" THEN m
            ELSE LET temp == Assemble(m.data, RangeBody(l.start), m.loaded)
                     m1 == [m EXCEPT !.data = temp, !.loaded = Len(temp)]
                 IN IF m1.loaded < m1.total
                    THEN Slice(m1)
                    ELSE Emit(Rline([m1 EXCEPT !.state = COMPLETE]),
                              Ev("complete", Len(m1.data)))

\* [onComplete]: the 'load' listener; status and response are read from
\* _loader, whichever session delivered the event.  A session that is not DONE
\* (or failed) has a null response, and response.byteLength then throws.
OnComplete(m) ==
    IF m.loader = 0 THEN m
    ELSE LET l == m.sess[m.loader]
         IN IF l.status >= 400 THEN m
            ELSE IF l.phase # "done" THEN m               \* TypeError
            ELSE LET temp == Assemble(m.data, RangeBody(l.start), m.loaded)
                     m1 == [m EXCEPT !.data = temp, !.loaded = Len(temp)]
                 IN IF m1.loaded < m1.total
                    THEN Slice(m1)
                    ELSE Emit(Rline([m1 EXCEPT !.state = COMPLETE]),
                              Ev("complete", Len(m1.data)))

\* online() that reports the recovery without issuing a session.
Online1_NoSlice(m) ==
    IF m.state = DOWNLOADING THEN Emit(m, Ev("online", 0)) ELSE m

\* [online], one registered listener.
Online1(m) ==
    IF m.state = DOWNLOADING THEN Emit(Slice(m), Ev("online", 0)) ELSE m

\* [offline], one registered listener.
Offline1(m) == Emit(m, Ev("offline", 0))

\* The window dispatches the signal to each of the k registered listeners.
RECURSIVE OnlineAll(_, _)
OnlineAll(m, k) == IF k = 0 THEN m ELSE OnlineAll(Online1(m), k - 1)

RECURSIVE OfflineAll(_, _)
OfflineAll(m, k) == IF k = 0 THEN m ELSE OfflineAll(Offline1(m), k - 1)

\* ------------------------------------------------------------- URLLoader
\* URLLoader downloads a whole resource with one XMLHttpRequest.  Its fields:
\*   request     "null" or "ok"                                  (_request)
\*   xhr         phase / status / rtype / payload of _xhr; rtype is the
\*               responseType load() set, payload what the server sent
\*   loaded, total, data, dataFormat, timeout                    (_loaded ...)
\*   timer       the timer whose handle _timer holds is pending
\*   stray       pending timers whose handle has been overwritten or dropped
\*   out, act    notifications of the last operation; the last operation
\*   threw       the last operation ended in an uncaught exception
\*   loads       number of load() calls so far

\* What a server may send as the body of the exchange: a JSON text that
\* denotes an object, a JSON text that denotes a string ("abc"), a JSON text
\* that denotes a falsy value (null, 0, false, ""), or text that is not JSON.
Payloads == {"object", "string", "falsy", "malformed"}

NoData == [form |-> "null", of |-> "none"]

URLNullXhr == [phase |-> "null", status |-> 0, rtype |-> "text", payload |-> "none"]

URLFreshXhr == [phase |-> "unsent", status |-> 0, rtype |-> "text", payload |-> "none"]

\* [reset] of URLLoader followed by the rest of [initialize].
NewURLLoader ==
    [request |-> "null", xhr |-> URLFreshXhr, loaded |-> 0, total |-> 0,
     data |-> NoData, dataFormat |-> "text", timeout |-> 0, timer |-> FALSE,
     stray |-> 0, out |-> << >>, act |-> "new", threw |-> FALSE, loads |-> 0]

\* clearTimeout(this._timer), guarded by the current value of timeout.
URL_ClearTimer(u) == IF u.timeout # 0 THEN [u EXCEPT !.timer = FALSE] ELSE u

\* [onClose] of URLLoader
URL_OnClose(u) == Emit(u, Ev("close", u.loaded))

\* [abort] of URLLoader: XMLHttpRequest.abort() fires readystatechange with
\* status 0 (onHTTPStatus returns) and abort only for a request under way, and
\* leaves the object UNSENT in every case.
URL_Abort(u) ==
    IF u.xhr.phase = "null" THEN u
    ELSE LET u1 == [u EXCEPT !.xhr = URLFreshXhr]
         IN IF InFlight(u.xhr) THEN URL_OnClose(u1) ELSE u1

\* [reset] of URLLoader; the handle _timer is dropped, not cleared.
URL_Reset(u) ==
    [u EXCEPT !.loaded = 0, !.total = 0, !.data = NoData, !.dataFormat = "text",
              !.timeout = 0, !.xhr = URLNullXhr, !.timer = FALSE,
              !.stray = IF u.timer THEN @ + 1 ELSE @]

\* [onStart] of URLLoader
URL_OnStart(u) == Emit(u, Ev("start", 0))

\* [onTimeout]
URL_OnTimeout(u) == Emit(u, Ev("error", TimeoutCode))

\* [onError] of URLLoader
URL_OnError(u) == Emit(URL_ClearTimer(u), Ev("error", NetworkErrorCode))

\* [onHTTPStatus] of URLLoader; this.state is _xhr.readyState.
URL_OnHTTPStatus(u) ==
    IF u.xhr.status = 0 THEN u
    ELSE IF u.xhr.phase = "recv"
    THEN IF u.xhr.status >= 400 THEN Emit(u, Ev("error", u.xhr.status)) ELSE u
    ELSE IF u.xhr.phase = "done"
    THEN Emit(URL_ClearTimer(u), Ev("httpStatus", u.xhr.status))
    ELSE u

\* [onProgress] of URLLoader with evt.loaded = n and evt.total = t.
URL_OnProgress(u, n, t) ==
    IF u.xhr.phase \notin {"recv", "done"} THEN u
    ELSE IF u.xhr.status >= 400 THEN u
    ELSE LET u1 == [u EXCEPT !.loaded = n,
                             !.total = IF u.total = 0 THEN t ELSE @]
         IN IF u1.total = 0 \/ u1.loaded > u1.total THEN u1
            ELSE Emit(u1, Ev("progress", u1.loaded))

\* _xhr.response for the responseType load() set: the body as a string for
\* 'text'; for 'json' the value the body denotes, or null when it does not
\* parse.
URL_Response(x) ==
    IF x.rtype = "text" THEN [form |-> "text", of |-> x.payload]
    ELSE IF x.payload = "malformed" THEN NoData
    ELSE [form |-> "value", of |-> x.payload]

\* JavaScript truthiness of a response or of data.
Truthy(d) ==
    \/ d.form = "text"
    \/ d.form = "value" /\ d.of \in {"object", "string"}

\* typeof d === 'string'
IsString(d) ==
    \/ d.form = "text"
    \/ d.form = "value" /\ d.of = "string"

\* JSON.parse succeeds on the body of a well-formed JSON text; the string a
\* JSON string literal denotes (abc) is not JSON itself.
ParsesAsJSON(d) == d.form = "text" /\ d.of # "malformed"

JSONParse(d) == [form |-> "value", of |-> d.of]

URL_Complete(u, d) == Emit([u EXCEPT !.data = d], Ev("complete", 0))

\* onComplete that hands over whatever the response is, parsed or not.
URL_OnComplete_Lenient(u) ==
    IF u.xhr.status >= 400 THEN u
    ELSE URL_Complete(u, URL_Response(u.xhr))

\* [onComplete] of URLLoader.  With a falsy response the expression
\* response || responseText reads responseText, which raises
\* InvalidStateError unless responseType is 'text'; a string that JSON.parse
\* rejects raises Error('JSON parse failed').
URL_OnComplete(u) ==
    IF u.xhr.status >= 400 THEN u
    ELSE LET r == URL_Response(u.xhr)
         IN IF ~Truthy(r) THEN [u EXCEPT !.threw = TRUE]
            ELSE IF u.dataFormat = "json" /\ IsString(r)
            THEN IF ParsesAsJSON(r) THEN URL_Complete(u, JSONParse(r))
                 ELSE [u EXCEPT !.threw = TRUE]
            ELSE URL_Complete(u, r)

\* --------------------------------------------------------------- operations

\* What an observer of the run records, according to hist.mode:
\*   "flow":     the range starts of the requests sent (m.req), as long as the
\*               run has seen no caller action after load(), no failure and no
\*               connectivity signal (clean);
\*   "progress": the loaded field of the latest PROGRESS notification of the
\*               transfer (-1 before the first);
\*   "off":      nothing.
NoHist == [mode |-> "off", issued |-> << >>, clean |-> TRUE, last |-> -1]

Disturbances ==
    {"close", "pause", "resume", "pauseResume", "online", "offline",
     "xhrError", "loaderError"}

Observe(m, a) ==
    IF hist.mode = "flow"
    THEN LET ok == /\ hist.clean
                   /\ a \notin Disturbances
                   /\ \A k \in 1..Len(m.out) : m.out[k].code # "error"
         IN [hist EXCEPT !.clean = ok,
                         !.issued = IF ok THEN @ \o m.req ELSE << >>]
    ELSE IF hist.mode = "progress"
    THEN LET P == {k \in 1..Len(m.out) : m.out[k].code = "progress"}
         IN IF P # {}
            THEN [hist EXCEPT !.last =
                     m.out[CHOOSE k \in P : \A j \in P : j <= k].arg]
            ELSE IF a \in {"load", "close"} THEN [hist EXCEPT !.last = -1]
            ELSE hist
    ELSE hist

\* The operation named a leaves the loader as m.
Apply(m, a) ==
    /\ ~m.ovf
    /\ state' = m.state
    /\ loaded' = m.loaded
    /\ total' = m.total
    /\ data' = m.data
    /\ active_disconnect' = m.active_disconnect
    /\ request' = m.request
    /\ xhr' = m.xhr
    /\ loader' = m.loader
    /\ sess' = m.sess
    /\ lines' = m.lines
    /\ out' = m.out
    /\ act' = a
    /\ hist' = Observe(m, a)
    /\ url' = url

\* new FileLoader(): reset, then a fresh _xhr with its listeners.
InitLoader ==
    /\ state = IDLE
    /\ loaded = 0
    /\ total = 0
    /\ data = << >>
    /\ active_disconnect = FALSE
    /\ request = "null"
    /\ xhr = FreshXhr
    /\ loader = 0
    /\ sess = [i \in 1..MaxSess |-> FreeSession]
    /\ lines = 0
    /\ out = << >>
    /\ act = "new"
    /\ loads = 0
    /\ url = NewURLLoader

Init == InitLoader /\ hist = NoHist

\* load(request): r = "none" is a call without argument.  open() restarts
\* _xhr (silently ending a request under way) and send() fires loadstart.
\* With no request, or with _xhr null after close(), the call throws.
Load(r) ==
    LET m == [Cur EXCEPT !.request = IF r = "none" THEN @ ELSE r]
    IN IF m.request = "null" \/ m.xhr.phase = "null"
       THEN /\ Apply(m, "loadThrow")
            /\ UNCHANGED loads
       ELSE /\ loads < MaxLoads
            /\ loads' = loads + 1
            /\ Apply(OnStart([m EXCEPT !.xhr = [FreshXhr EXCEPT !.phase = "sent"]]),
                     "load")

\* close()
Close ==
    /\ Apply(Reset(Abort(Cur)), "close")
    /\ UNCHANGED loads

\* pause()
PauseOp(m) ==
    IF m.state # DOWNLOADING THEN m
    ELSE Abort([m EXCEPT !.active_disconnect = TRUE])

\* resume()
ResumeOp(m) ==
    IF m.state # DOWNLOADING THEN m ELSE Slice(m)

Pause ==
    /\ Apply(PauseOp(Cur), "pause")
    /\ UNCHANGED loads

Resume ==
    /\ Apply(ResumeOp(Cur), "resume")
    /\ UNCHANGED loads

\* The header-discovery response arrives: status st, Content-Length present
\* (hasLen) or not.
XhrHeaders(st, hasLen) ==
    /\ xhr.phase = "sent"
    /\ LET m == [Cur EXCEPT !.xhr = [phase |-> "recv", status |-> st,
                                     cl |-> IF hasLen THEN ResourceLen ELSE 0]]
       IN Apply(OnHTTPStatus(m, st), "xhrHeaders")
    /\ UNCHANGED loads

\* The header-discovery request, left running, ends with its body received:
\* readyState 3 and 4 have no case in onHTTPStatus and _xhr has no 'load'
\* listener.
XhrDone ==
    /\ xhr.phase = "recv"
    /\ Apply([Cur EXCEPT !.xhr.phase = "done"], "xhrDone")
    /\ UNCHANGED loads

\* The header-discovery request fails at transport level: readystatechange
\* with status 0, then 'error'.
XhrError ==
    /\ InFlight(xhr)
    /\ Apply(OnError([Cur EXCEPT !.xhr = [phase |-> "failed", status |-> 0, cl |-> 0]]),
             "xhrError")
    /\ UNCHANGED loads

\* What becomes of session i after its terminal event: still referenced by
\* _loader it stays readable, otherwise it is gone.
Ended(m, i, ph) ==
    IF m.loader = i
    THEN [m EXCEPT !.sess[i].phase = ph]
    ELSE [m EXCEPT !.sess[i] = FreeSession]

\* Ranged session i receives its status line and headers.
LoaderHeaders(i, st) ==
    /\ sess[i].phase = "sent"
    /\ st \in ChunkStatuses(sess[i].start)
    /\ LET m == [Cur EXCEPT !.sess[i].phase = "recv", !.sess[i].status = st]
       IN Apply(OnHTTPStatus(m, st), "loaderHeaders")
    /\ UNCHANGED loads

\* Length of the body session x is receiving: the range asked for, or an
\* error page.
BodyLen(x) ==
    IF x.status < 400 THEN Len(RangeBody(x.start)) ELSE ChunkSize

\* Ranged session i reports progress: n bytes of its body so far, more than
\* it reported before.
LoaderProgress(i, n) ==
    /\ sess[i].phase = "recv"
    /\ n > sess[i].prog
    /\ n <= BodyLen(sess[i])
    /\ Apply(OnProgress([Cur EXCEPT !.sess[i].prog = n], n), "loaderProgress")
    /\ UNCHANGED loads

\* Ranged session i ends with its body received: 'load'.
LoaderLoad(i) ==
    /\ sess[i].phase = "recv"
    /\ LET ended == Ended(Cur, i, "done")
           m == OnComplete(ended)
       IN Apply(m, "loaderLoad")
    /\ UNCHANGED loads

\* Ranged session i fails at transport level: readystatechange with status 0
\* and 'error', for which slice() registers no listener.
LoaderError(i) ==
    /\ InFlight(sess[i])
    /\ Apply(Ended([Cur EXCEPT !.sess[i].status = 0], i, "failed"), "loaderError")
    /\ UNCHANGED loads

\* window 'online'
Online ==
    /\ Apply(OnlineAll(Cur, lines), "online")
    /\ UNCHANGED loads

\* window 'offline'
Offline ==
    /\ Apply(OfflineAll(Cur, lines), "offline")
    /\ UNCHANGED loads

Next ==
    \/ \E r \in {"none", "ok"} : Load(r)
    \/ Close
    \/ Pause
    \/ Resume
    \/ \E st \in HeaderStatuses, hasLen \in BOOLEAN : XhrHeaders(st, hasLen)
    \/ XhrDone
    \/ XhrError
    \/ \E i \in 1..MaxSess, st \in {206, 404, 416} : LoaderHeaders(i, st)
    \/ \E i \in 1..MaxSess, n \in 1..ChunkSize : LoaderProgress(i, n)
    \/ \E i \in 1..MaxSess : LoaderLoad(i)
    \/ \E i \in 1..MaxSess : LoaderError(i)
    \/ Online
    \/ Offline

Spec == Init /\ [][Next]_vars

\* One transfer per loader: load() succeeds once.
LoadOnce(r) == loads = 0 /\ Load(r)

NextOne ==
    \/ \E r \in {"none", "ok"} : LoadOnce(r)
    \/ Close
    \/ Pause
    \/ Resume
    \/ \E st \in HeaderStatuses, hasLen \in BOOLEAN : XhrHeaders(st, hasLen)
    \/ XhrDone
    \/ XhrError
    \/ \E i \in 1..MaxSess, st \in {206, 404, 416} : LoaderHeaders(i, st)
    \/ \E i \in 1..MaxSess, n \in 1..ChunkSize : LoaderProgress(i, n)
    \/ \E i \in 1..MaxSess : LoaderLoad(i)
    \/ \E i \in 1..MaxSess : LoaderError(i)
    \/ Online
    \/ Offline

SpecOne == Init /\ [][NextOne]_vars

\* Ranged sessions whose request is under way.
SessionsInFlight == {i \in 1..MaxSess : InFlight(sess[i])}

\* A caller that resumes only a suspended transfer: resume() and the online
\* signal come when no ranged session is under way, and a pause() of a running
\* chunk may be followed at once by resume() (two synchronous calls, between
\* which no callback can run).
ResumeIdle == SessionsInFlight = {} /\ Resume

OnlineIdle == SessionsInFlight = {} /\ Online

PauseResume ==
    /\ state = DOWNLOADING
    /\ loader # 0
    /\ InFlight(sess[loader])
    /\ Apply(ResumeOp(PauseOp(Cur)), "pauseResume")
    /\ UNCHANGED loads

NextSeq ==
    \/ \E r \in {"none", "ok"} : LoadOnce(r)
    \/ Close
    \/ Pause
    \/ ResumeIdle
    \/ PauseResume
    \/ \E st \in HeaderStatuses, hasLen \in BOOLEAN : XhrHeaders(st, hasLen)
    \/ XhrDone
    \/ XhrError
    \/ \E i \in 1..MaxSess, st \in {206, 404, 416} : LoaderHeaders(i, st)
    \/ \E i \in 1..MaxSess, n \in 1..ChunkSize : LoaderProgress(i, n)
    \/ \E i \in 1..MaxSess : LoaderLoad(i)
    \/ \E i \in 1..MaxSess : LoaderError(i)
    \/ OnlineIdle
    \/ Offline

SpecSeq == Init /\ [][NextSeq]_vars

\* A transfer whose only disturbances are connectivity losses: an offline
\* signal may come at any time, a chunk may fail (transport error, or a 404
\* answer), and the online signal comes once nothing is under way.
\* The network delivers the responses of the requests under way (weak
\* fairness); the caller does nothing after load().
LoaderHeadersOK(i) == LoaderHeaders(i, 206)

LoaderHeadersRefused(i) == LoaderHeaders(i, 404)

NextNet ==
    \/ \E r \in {"none", "ok"} : LoadOnce(r)
    \/ \E st \in HeaderStatuses, hasLen \in BOOLEAN : XhrHeaders(st, hasLen)
    \/ XhrDone
    \/ \E i \in 1..MaxSess : LoaderHeadersOK(i)
    \/ \E i \in 1..MaxSess : LoaderHeadersRefused(i)
    \/ \E i \in 1..MaxSess, n \in 1..ChunkSize : LoaderProgress(i, n)
    \/ \E i \in 1..MaxSess : LoaderLoad(i)
    \/ \E i \in 1..MaxSess : LoaderError(i)
    \/ Offline
    \/ OnlineIdle

SpecNet ==
    /\ Init
    /\ [][NextNet]_vars
    /\ WF_vars(\E i \in 1..MaxSess : LoaderHeadersOK(i))
    /\ WF_vars(\E i \in 1..MaxSess : LoaderLoad(i))

\* The same runs, watched by an observer who records the requests sent for as
\* long as the run is free of failures, connectivity signals and caller
\* actions.
InitFlow == InitLoader /\ hist = [NoHist EXCEPT !.mode = "flow"]

SpecFlow ==
    /\ InitFlow
    /\ [][NextNet]_vars
    /\ WF_vars(\E i \in 1..MaxSess : LoaderHeadersOK(i))
    /\ WF_vars(\E i \in 1..MaxSess : LoaderLoad(i))

\* One transfer per loader, the caller passing any kind of request: "nourl"
\* is a URLRequest whose url is null (the constructor's default) or empty.
\* XMLHttpRequest.open() turns such a url into a string and resolves it against
\* the page's address, so it opens a session like any other.
NextReq ==
    \/ \E r \in {"none", "ok", "nourl"} : LoadOnce(r)
    \/ Close
    \/ Pause
    \/ Resume
    \/ \E st \in HeaderStatuses, hasLen \in BOOLEAN : XhrHeaders(st, hasLen)
    \/ XhrDone
    \/ XhrError
    \/ \E i \in 1..MaxSess, st \in {206, 404, 416} : LoaderHeaders(i, st)
    \/ \E i \in 1..MaxSess, n \in 1..ChunkSize : LoaderProgress(i, n)
    \/ \E i \in 1..MaxSess : LoaderLoad(i)
    \/ \E i \in 1..MaxSess : LoaderError(i)
    \/ Online
    \/ Offline

SpecReq == Init /\ [][NextReq]_vars

\* The runs of the disciplined caller, watched by an observer who keeps the
\* loaded field of the latest PROGRESS notification.
InitProg == InitLoader /\ hist = [NoHist EXCEPT !.mode = "progress"]

SpecProg == InitProg /\ [][NextSeq]_vars

\* ------------------------------------------------- operations of URLLoader

\* The FileLoader of the module takes no part in a step of the URLLoader.
FileLoaderIdle ==
    UNCHANGED << state, loaded, total, data, active_disconnect, request, xhr,
                 loader, sess, lines, out, act, loads, hist >>

URL_Cur == [url EXCEPT !.out = << >>, !.threw = FALSE]

URL_Apply(u, a) == url' = [u EXCEPT !.act = a]

\* set timeout: t = 1 stands for any positive duration.
URL_SetTimeout(t) ==
    /\ t # url.timeout
    /\ URL_Apply([URL_Cur EXCEPT !.timeout = t], "setTimeout")
    /\ FileLoaderIdle

\* set dataFormat
URL_SetDataFormat(f) ==
    /\ f # url.dataFormat
    /\ URL_Apply([URL_Cur EXCEPT !.dataFormat = f], "setDataFormat")
    /\ FileLoaderIdle

\* URLLoader.load(request): the timer is started first, inside the try block;
\* its handle replaces the one _timer held.
URL_Load(r) ==
    /\ url.loads < MaxLoads
    /\ LET u1 == [URL_Cur EXCEPT !.request = IF r = "none" THEN @ ELSE r,
                                 !.loads = @ + 1]
           u2 == IF u1.timeout # 0
                 THEN [u1 EXCEPT !.timer = TRUE,
                                 !.stray = IF u1.timer THEN @ + 1 ELSE @]
                 ELSE u1
       IN IF u2.request = "null" \/ u2.xhr.phase = "null"
          THEN URL_Apply([u2 EXCEPT !.threw = TRUE], "loadThrow")
          ELSE URL_Apply(URL_OnStart(
                   [u2 EXCEPT !.xhr = [phase |-> "sent", status |-> 0,
                                       rtype |-> u2.dataFormat,
                                       payload |-> "none"]]), "load")
    /\ FileLoaderIdle

\* URLLoader.close()
URL_Close ==
    /\ URL_Apply(URL_Reset(URL_Abort(URL_ClearTimer(URL_Cur))), "close")
    /\ FileLoaderIdle

\* The timer _timer refers to expires: abort(), then onTimeout().
URL_TimerFires ==
    /\ url.timer
    /\ URL_Apply(URL_OnTimeout(URL_Abort([URL_Cur EXCEPT !.timer = FALSE])),
                 "timeout")
    /\ FileLoaderIdle

\* A timer nothing refers to any more expires: the same callback.
URL_StrayTimerFires ==
    /\ url.stray > 0
    /\ URL_Apply(URL_OnTimeout(URL_Abort([URL_Cur EXCEPT !.stray = @ - 1])),
                 "strayTimeout")
    /\ FileLoaderIdle

\* The status line and headers arrive: readystatechange with readyState 2.
URL_Headers(st) ==
    /\ url.xhr.phase = "sent"
    /\ URL_Apply(URL_OnHTTPStatus(
           [URL_Cur EXCEPT !.xhr.phase = "recv", !.xhr.status = st]), "headers")
    /\ FileLoaderIdle

\* A progress event reporting n bytes of t (t = 0: length not computable).
URL_Progress(n, t) ==
    /\ url.xhr.phase = "recv"
    /\ URL_Apply(URL_OnProgress(URL_Cur, n, t), "progress")
    /\ FileLoaderIdle

\* The body has arrived: readystatechange with readyState 4, then load.
URL_Done(p) ==
    /\ url.xhr.phase = "recv"
    /\ URL_Apply(URL_OnComplete(URL_OnHTTPStatus(
           [URL_Cur EXCEPT !.xhr.phase = "done", !.xhr.payload = p])), "done")
    /\ FileLoaderIdle

\* The exchange fails at transport level: readystatechange with status 0,
\* then error.
URL_Error ==
    /\ InFlight(url.xhr)
    /\ URL_Apply(URL_OnError(URL_OnHTTPStatus(
           [URL_Cur EXCEPT !.xhr.phase = "failed", !.xhr.status = 0])), "error")
    /\ FileLoaderIdle

NextURL ==
    \/ \E t \in {0, 1} : URL_SetTimeout(t)
    \/ \E f \in {"text", "json"} : URL_SetDataFormat(f)
    \/ \E r \in {"none", "ok"} : URL_Load(r)
    \/ URL_Close
    \/ URL_TimerFires
    \/ URL_StrayTimerFires
    \/ \E st \in HeaderStatuses : URL_Headers(st)
    \/ \E n \in 1..ChunkSize, t \in {0, ChunkSize} : URL_Progress(n, t)
    \/ \E p \in Payloads : URL_Done(p)
    \/ URL_Error

SpecURL == Init /\ [][NextURL]_vars

\* ------------------------------------------------------------------ claims

Has(seq, code) == \E i \in DOMAIN seq : seq[i].code = code

Count(seq, code) == Cardinality({i \in DOMAIN seq : seq[i].code = code})

\* The session _xhr or _loader points to is under way.
CurrentInFlight == InFlight(xhr) \/ (loader # 0 /\ InFlight(sess[loader]))

\* C1: whenever COMPLETE is emitted, data has exactly bytesTotal bytes and
\* equals the resource byte for byte.
C1_CompleteIsResource ==
    Has(out, "complete") => (Len(data) = total /\ data = Resource)

\* C2: bytesLoaded never decreases within a transfer (until close()), and once
\* bytesTotal is known 0 <= bytesLoaded <= bytesTotal.
C2_LoadedMonotoneBounded ==
    [][/\ (act' # "close" => loaded' >= loaded)
       /\ (total' # 0 => (0 <= loaded' /\ loaded' <= total'))]_vars

\* C3: at most one ranged chunk session is in flight in every reachable state.
C3_OneSessionInFlight == Cardinality(SessionsInFlight) <= 1

\* C4: pause() of a running chunk followed at once by resume() issues one new
\* session whose range starts at the bytesLoaded held at pause(), bytesLoaded
\* and data being untouched; and the buffer delivered with COMPLETE is the
\* resource, every byte once.
C4_PauseResume ==
    /\ [][act' = "pauseResume" =>
            /\ loader' # 0
            /\ sess'[loader'].phase = "sent"
            /\ sess'[loader'].start = loaded
            /\ SessionsInFlight' = {loader'}
            /\ loaded' = loaded
            /\ data' = data]_vars
    /\ [](Has(out, "complete") => data = Resource)

\* A pause()/resume() pair has just restarted the second or a later chunk.
C4_Witness ==
    /\ act = "pauseResume"
    /\ loaded >= ChunkSize
    /\ loaded < total
    /\ sess[loader].start = loaded
    /\ data = SubSeq(Resource, 1, loaded)

\* C5: close() while DOWNLOADING leaves bytesLoaded = 0, bytesTotal = 0,
\* state = IDLE, data empty and no session in flight.
C5_CloseResets ==
    [][(act' = "close" /\ state = DOWNLOADING) =>
            /\ loaded' = 0
            /\ total' = 0
            /\ state' = IDLE
            /\ data' = << >>
            /\ ~InFlight(xhr')
            /\ SessionsInFlight' = {}]_vars

\* C6: load() with a valid request on a closed loader opens a header-discovery
\* session, emits START and starts from bytesLoaded = 0; load() after COMPLETE
\* does not reuse the previous cursor or buffer.
C6_FreshTransfer ==
    /\ [][(xhr.phase = "null" /\ act' \in {"load", "loadThrow"} /\ request' = "ok") =>
            /\ act' = "load"
            /\ xhr'.phase = "sent"
            /\ Has(out', "start")
            /\ loaded' = 0]_vars
    /\ [][(state = COMPLETE /\ act' = "load") =>
            (loaded' = 0 /\ data' = << >>)]_vars

\* C7: a header-discovery response with a success status and no
\* Content-Length emits ERROR 1001 and nothing else, and from then on (until
\* load() or close()) no ERROR, PROGRESS or COMPLETE is emitted and no ranged
\* session is issued.
C7_SizeUnknownOnce ==
    /\ [][(act' = "xhrHeaders" /\ xhr'.phase = "recv" /\ xhr'.status < 400
               /\ xhr'.cl = 0) =>
            (out' = << Ev("error", UnknownSizeCode) >> /\ SessionsInFlight' = {})]_vars
    /\ [][(xhr.phase = "recv" /\ xhr.status < 400 /\ xhr.cl = 0
               /\ act' \notin {"load", "close"}) =>
            /\ ~Has(out', "error")
            /\ ~Has(out', "progress")
            /\ ~Has(out', "complete")
            /\ SessionsInFlight' = {}]_vars

\* C8: a chunk session ending in a transport failure emits ERROR 1000; a chunk
\* session answered with status >= 400 emits ERROR with that status.
C8_ChunkErrors ==
    /\ [][act' = "loaderError" => out' = << Ev("error", NetworkErrorCode) >>]_vars
    /\ [][\A i \in 1..MaxSess :
            (act' = "loaderHeaders" /\ sess[i].phase = "sent"
                /\ sess'[i].phase = "recv" /\ sess'[i].status >= 400) =>
            out' = << Ev("error", sess'[i].status) >>]_vars

\* C9: close() while the header-discovery or the current chunk session is in
\* flight emits exactly one CLOSE.
C9_CloseEmitsOnce ==
    [][(act' = "close" /\ CurrentInFlight) => Count(out', "close") = 1]_vars

\* C10: pause() while DOWNLOADING aborts the chunk session, emits no CLOSE and
\* leaves state, bytesLoaded, bytesTotal and data unchanged.
C10_PauseFrame ==
    [][(act' = "pause" /\ state = DOWNLOADING) =>
            /\ (loader' # 0 => ~InFlight(sess'[loader']))
            /\ ~Has(out', "close")
            /\ state' = DOWNLOADING
            /\ loaded' = loaded
            /\ total' = total
            /\ data' = data]_vars

\* C11: after an offline signal during a chunk and the failure of that chunk,
\* bytesLoaded and data stay as the last successful chunk left them and no
\* session is in flight; the online signal then issues one session whose range
\* starts at that bytesLoaded; and unless connectivity drops again the
\* transfer reaches COMPLETE with Len(data) = bytesTotal.
C11_OfflineOnline ==
    /\ [][(act = "offline" /\ CurrentInFlight /\ act' = "loaderError") =>
            /\ loaded' = loaded
            /\ data' = data
            /\ state' = DOWNLOADING
            /\ SessionsInFlight' = {}
            /\ out' = << >>]_vars
    /\ [][(act = "loaderError" /\ act' = "online") =>
            /\ loader' # 0
            /\ sess'[loader'].phase = "sent"
            /\ sess'[loader'].start = loaded
            /\ SessionsInFlight' = {loader'}
            /\ loaded' = loaded
            /\ data' = data]_vars
    /\ (act = "online" /\ state = DOWNLOADING)
          ~> ((state = COMPLETE /\ Len(data) = total /\ data = Resource)
                \/ act = "loaderError" \/ Has(out, "error"))

\* The online signal has just restarted a transfer suspended after its first
\* chunk.
C11_Witness ==
    /\ act = "online"
    /\ Has(out, "online")
    /\ state = DOWNLOADING
    /\ loaded >= ChunkSize
    /\ loader # 0
    /\ sess[loader].phase = "sent"
    /\ sess[loader].start = loaded

\* C12: an online or offline signal delivered while state is not DOWNLOADING
\* (before the chunk loop, after COMPLETE, after the size-unknown ERROR, after
\* close()) emits nothing and starts no chunk session.
C12_MonitorScoped ==
    [][(act' \in {"online", "offline"} /\ state # DOWNLOADING) =>
            /\ out' = << >>
            /\ sess' = sess
            /\ loader' = loader]_vars

\* ceil(ResourceLen / ChunkSize)
NChunks == (ResourceLen + ChunkSize - 1) \div ChunkSize

\* C14: in an uninterrupted, failure-free transfer the requests sent so far
\* are the first of the ranges starting at 0, C, 2C, ...; the chunks before the
\* one under way have delivered bytes 0 .. k*C - 1; and at COMPLETE exactly
\* ceil(T/C) requests have been sent and data holds the T bytes of the
\* resource.
C14_ChunkRanges ==
    hist.clean =>
        /\ Len(hist.issued) <= NChunks
        /\ \A k \in 1..Len(hist.issued) : hist.issued[k] = (k - 1) * ChunkSize
        /\ (state = DOWNLOADING /\ hist.issued # << >>) =>
              /\ loaded = hist.issued[Len(hist.issued)]
              /\ data = SubSeq(Resource, 1, loaded)
        /\ state = COMPLETE =>
              /\ Len(hist.issued) = NChunks
              /\ loaded = ResourceLen
              /\ Len(data) = ResourceLen
              /\ data = Resource

\* A transfer of several chunks has completed without any disturbance.
C14_Witness ==
    /\ hist.clean
    /\ state = COMPLETE
    /\ Has(out, "complete")
    /\ NChunks > 1
    /\ Len(hist.issued) = NChunks
    /\ Len(data) = ResourceLen

\* C15: once the header response has supplied the content length, a transfer
\* in which every chunk succeeds and the caller does nothing reaches state
\* COMPLETE and emits COMPLETE, the engine issuing each next chunk itself.
C15_SelfDriving ==
    /\ (hist.clean /\ state = DOWNLOADING)
          ~> ((state = COMPLETE /\ Has(out, "complete")) \/ ~hist.clean)
    /\ [][(hist.clean' /\ act' = "loaderLoad" /\ state = DOWNLOADING) =>
            \/ /\ loaded' < total
               /\ state' = DOWNLOADING
               /\ loader' # 0
               /\ sess'[loader'].phase = "sent"
               /\ sess'[loader'].start = loaded'
               /\ hist'.issued = Append(hist.issued, loaded')
            \/ /\ loaded' = total
               /\ state' = COMPLETE
               /\ Has(out', "complete")
               /\ SessionsInFlight' = {}]_vars

\* A chunk has completed short of the total and the engine has sent the next
\* request in the same step.
C15_Witness ==
    /\ hist.clean
    /\ act = "loaderLoad"
    /\ state = DOWNLOADING
    /\ 0 < loaded /\ loaded < total
    /\ loader # 0
    /\ sess[loader].phase = "sent"
    /\ sess[loader].start = loaded

\* The current chunk session has ended in failure: transport error, or a
\* response with status >= 400.
ChunkFailed ==
    /\ state = DOWNLOADING
    /\ loader # 0
    /\ \/ sess[loader].phase = "failed"
       \/ sess[loader].phase = "done" /\ sess[loader].status >= 400

\* C16: neither the step in which the only chunk session under way ends in
\* failure (transport error, or load event of a response with status >= 400)
\* nor any later step other than resume() or the online signal sends a new
\* ranged request.
C16_NoAutoRetry ==
    [][(\/ /\ state = DOWNLOADING
           /\ loader # 0
           /\ SessionsInFlight = {loader}
           /\ \/ act' = "loaderError"
              \/ act' = "loaderLoad" /\ sess[loader].status >= 400
        \/ /\ ChunkFailed
           /\ act' \notin {"resume", "online", "pauseResume"}) =>
            \A i \in 1..MaxSess :
                sess'[i].phase = "sent" => sess[i].phase = "sent"]_vars

\* A chunk has failed and something other than resume() or the online signal
\* has happened since, the failed session still being the current one.
C16_Witness ==
    /\ ChunkFailed
    /\ act \in {"offline", "pause", "loaderLoad", "loaderProgress"}
    /\ loaded > 0
    /\ SessionsInFlight = {}

\* C17: no step other than close() decreases state; in particular neither a
\* callback nor load() takes it from DOWNLOADING or COMPLETE back to OPENED or
\* HEADERS_RECEIVED.
C17_StateMonotone ==
    [][act' # "close" => state' >= state]_vars

\* C18: load() with no usable request (none passed and none held, or one whose
\* url is null or empty) throws, opens no session, emits nothing and leaves
\* state, bytesLoaded, bytesTotal and data as they were.
C18_LoadRejects ==
    [][(act' \in {"load", "loadThrow"} /\ request' \in {"null", "nourl"}) =>
            /\ act' = "loadThrow"
            /\ out' = << >>
            /\ xhr' = xhr
            /\ state' = state
            /\ loaded' = loaded
            /\ total' = total
            /\ data' = data]_vars

\* C19: no PROGRESS notification carries a loaded value above the known
\* bytesTotal.
C19_ProgressWithinTotal ==
    \A k \in 1..Len(out) :
        (out[k].code = "progress" /\ total > 0) => out[k].arg <= total

\* C20: every PROGRESS notification of a transfer carries a loaded value at
\* least as large as the one before it.
C20_ProgressMonotone ==
    [][\A k \in 1..Len(out') :
          out'[k].code = "progress" => out'[k].arg >= hist.last]_vars

\* An ERROR notification with code 408 is among the notifications seq.
HasTimeoutError(seq) ==
    \E k \in DOMAIN seq : seq[k].code = "error" /\ seq[k].arg = TimeoutCode

\* C21: when the timer of a URLLoader expires with the exchange under way, the
\* session is aborted and ERROR 408 is emitted (and no COMPLETE can follow for
\* that load); ERROR 408 is never emitted once the exchange has completed or
\* failed, nor as the first thing after close(); and a load() made with
\* timeout 0 starts no timer, ERROR 408 being emitted by an expiring timer
\* only.
C21_Timeout ==
    /\ [][(url'.act = "timeout" /\ InFlight(url.xhr)) =>
            /\ HasTimeoutError(url'.out)
            /\ ~Has(url'.out, "complete")
            /\ ~InFlight(url'.xhr)]_vars
    /\ [][HasTimeoutError(url'.out) =>
            url.xhr.phase \notin {"done", "failed"}]_vars
    /\ [][url.act = "close" => ~HasTimeoutError(url'.out)]_vars
    /\ [][(url'.act \in {"load", "loadThrow"} /\ url.timeout = 0) =>
            (url'.timer = url.timer /\ url'.stray = url.stray)]_vars
    /\ [][HasTimeoutError(url'.out) =>
            url'.act \in {"timeout", "strayTimeout"}]_vars

SuccessHeaders ==
    \/ /\ act' = "xhrHeaders"
       /\ xhr'.status < 400
    \/ /\ act' = "loaderHeaders"
       /\ \E i \in 1..MaxSess :
             sess[i].phase = "sent" /\ sess'[i].phase = "recv"
                /\ sess'[i].status < 400

\* C23: a header callback with a success status arriving in state DOWNLOADING
\* or COMPLETE changes none of state, bytesLoaded, bytesTotal and data, aborts
\* and starts no session and emits nothing.
C23_LateHeadersIgnored ==
    [][(SuccessHeaders /\ state >= DOWNLOADING) =>
            /\ state' = state
            /\ loaded' = loaded
            /\ total' = total
            /\ data' = data
            /\ out' = << >>
            /\ loader' = loader
            /\ InFlight(xhr) => InFlight(xhr')
            /\ \A i \in 1..MaxSess :
                  /\ InFlight(sess[i]) => InFlight(sess'[i])
                  /\ sess'[i].phase = "sent" => sess[i].phase = "sent"
                  /\ sess'[i].start = sess[i].start]_vars

\* The header-discovery response of a second load() has arrived while the
\* chunk loop of the first is in state DOWNLOADING, and was ignored.
C23_Witness ==
    /\ act = "xhrHeaders"
    /\ state >= DOWNLOADING
    /\ xhr.phase = "recv"
    /\ xhr.status = 200
    /\ xhr.cl > 0
    /\ out = << >>

\* C24: once state is COMPLETE, no step other than load() or close() changes
\* state, bytesLoaded or data, sends a ranged request or emits COMPLETE
\* again.
C24_CompleteStable ==
    [][(state = COMPLETE /\ act' \notin {"load", "loadThrow", "close"}) =>
            /\ state' = COMPLETE
            /\ loaded' = loaded
            /\ data' = data
            /\ ~Has(out', "complete")
            /\ \A i \in 1..MaxSess :
                  sess'[i].phase = "sent" => sess[i].phase = "sent"]_vars

\* C25: data and bytesLoaded agree in every state: data is empty exactly when
\* bytesLoaded is 0, and otherwise data is the first bytesLoaded bytes of the
\* resource; and no step other than close() shortens data.
C25_BufferMatchesCursor ==
    /\ [](/\ (data = << >>) <=> (loaded = 0)
          /\ Len(data) = loaded
          /\ loaded <= ResourceLen
          /\ data = SubSeq(Resource, 1, loaded))
    /\ [][act' # "close" => Len(data') >= Len(data)]_vars

\* The transfer is paused: state is DOWNLOADING and the current ranged
\* session is the one pause() aborted.
Paused ==
    /\ state = DOWNLOADING
    /\ loader # 0
    /\ sess[loader].phase = "unsent"
    /\ SessionsInFlight = {}

\* C26: while the transfer is paused, no step other than resume() (or a new
\* load() or close()) sends a ranged request or changes bytesLoaded; in
\* particular no online or offline signal does.
C26_PauseHonoured ==
    [][(Paused /\ act' \notin {"resume", "pauseResume", "load", "loadThrow",
                               "close"}) =>
            /\ loaded' = loaded
            /\ \A i \in 1..MaxSess : sess'[i].phase # "sent"]_vars

====
